---- MODULE Spec2Model ----
(***************************************************************************)
(* SmvConvolutionOp (nnet_lib/src/operators/smv/smv_convolution_op.cpp):   *)
(* run() checks the layouts, asks the TilingOptimizer for tile shapes and  *)
(* the three tiled tensors, and runNHWC() drives the convolution kernel    *)
(* over the tile grids.                                                    *)
(* nnet_fwd() and run_layer() (nnet_lib/src/arch/mkl.cpp): the layer loop  *)
(* that ping-pongs between the two buffers activations.d and result.d.     *)
(***************************************************************************)
EXTENDS Integers, Sequences, FiniteSets, TLC

\* ---------------------------------------------------------------- bounds
\* run(): the operator and what the TilingOptimizer returns for it.
MaxKernel == 2          \* weightRows, weightCols range over 1..MaxKernel
MaxBatchTiles == 1      \* batch extent of the input tile grid
MaxHeightTiles == 1     \* height extent of the input tile grid
MaxWidthTiles == 1      \* width extent of the input tile grid
MaxFilterTiles == 2     \* filter extent (axis 0) of the weight tile grid
MaxChanTiles == 2       \* channel extent of the input and weight tile grids
\* runNHWC() on its own: the tile grids it is called with.
ArgBatchTiles == 2
ArgHeightTiles == 2
ArgWidthTiles == 2
ArgFilterTiles == 2
ArgChanTiles == 3
\* Content of the output tiles before the kernel writes them: 0..MaxContent.
MaxContent == 1
\* runNHWC() called with tile grids that need not fit each other: every
\* extent of the three grids ranges over 1..AnyTiles.
AnyTiles == 2
\* nnet_fwd(): network.depth ranges over 1..MaxDepth.
MaxDepth == 4

Layouts == {"NHWC", "NCHW"}

VARIABLES
    pc,             \* position in run() / runNHWC()
    inputLayout,    \* inputShape.getLayout()
    kernelLayout,   \* kernelShape.getLayout()
    outputLayout,   \* outputShape.getLayout()
    weightRows,     \* ConvolutionOp::weightRows
    weightCols,     \* ConvolutionOp::weightCols
    tileShapes,     \* spatial extent <<rows, cols>> of tileShapes.weights
    tiledInputs,    \* tile-grid shape of tiledInputs, <<>> before it exists
    tiledWeights,   \* tile-grid shape of tiledWeights
    tiledOutputs,   \* tile-grid shape of tiledOutputs
    out,            \* content of each output tile, by tile coordinate
    N, H, W,        \* loop indices of runNHWC
    iC, wC,         \* channel-tile cursors of runNHWC
    log,            \* history: calls run() has made, in order
    visits,         \* history: (N,H,W) and cursors each time the while loop is entered
    calls,          \* history: kernel invocations, in order
    operands,       \* content of each input tile and each weight tile
    prevRun,        \* history: calls and outcome of an earlier runNHWC(), or <<>>
    fpc,            \* position in nnet_fwd() / run_layer()
    depth,          \* network.depth
    activation,     \* layers[i].activation, i in 0..depth-1
    result_in_temp, \* layers[i].result_in_temp
    l,              \* nnet_fwd: loop index
    result_loc,     \* nnet_fwd: result_loc
    rlActivations,  \* run_layer: argument activations
    rlResult,       \* run_layer: argument result
    rlSkipLoc,      \* run_layer: what run_layer_skip_activation_func returned
    rlLoc,          \* run_layer: result_loc
    rlWrote,        \* run_layer: buffer the activation sublayer wrote, or "none"
    ritBefore,      \* history: result_in_temp when nnet_fwd was entered
    fwdCalls,       \* history: run_layer calls of nnet_fwd, in order
    fwdRets         \* history: run_layer returns, in order

convVars == << pc, inputLayout, kernelLayout, outputLayout, weightRows, weightCols,
               tileShapes, tiledInputs, tiledWeights, tiledOutputs, out,
               N, H, W, iC, wC, log, visits, calls, operands, prevRun >>

fwdVars == << fpc, depth, activation, result_in_temp, l, result_loc,
             rlActivations, rlResult, rlSkipLoc, rlLoc, rlWrote,
             ritBefore, fwdCalls, fwdRets >>

vars == << convVars, fwdVars >>

\* ------------------------------------------------------- pure helpers

\* ceil(a / b) for positive b: number of tiles of extent b covering extent a.
CeilDiv(a, b) == (a + b - 1) \div b

\* run(): the three layout asserts.
LayoutsOKSkipOutput(i, k, o) == i = "NHWC" /\ k = "NHWC"
LayoutsOK(i, k, o) == i = "NHWC" /\ k = "NHWC" /\ o = "NHWC"

\* run(): std::vector<int> inputHalos{ 0, weightRows / 2, weightCols / 2, 0 }.
InputHalosRoundUp(rows, cols) == << 0, (rows + 1) \div 2, (cols + 1) \div 2, 0 >>
InputHalos(rows, cols) == << 0, rows \div 2, cols \div 2, 0 >>

\* run(): the halo list { 0, 0, 0, 0 } given for the weights and the outputs.
NoHalos == << 0, 0, 0, 0 >>

\* runNHWC(): the while condition.
WhileCondInclusive(i, w, inputChanTiles, weightChanTiles) ==
    i <= inputChanTiles /\ w < weightChanTiles
WhileCond(i, w, inputChanTiles, weightChanTiles) ==
    i < inputChanTiles /\ w < weightChanTiles

\* runNHWC(): the last argument of the kernel call.
FlagArgNotFirst(i, w) == i > 0 \/ w > 0
FlagArg(i, w) == i = w

\* runNHWC(): the cursor update after the kernel call, as <<iC, wC>>.
AdvanceBothInElse(i, w, inputChanTiles, weightChanTiles) ==
    IF inputChanTiles = weightChanTiles THEN << i + 1, w + 1 >>
    ELSE IF inputChanTiles = 1 THEN << i, w + 1 >>
    ELSE << i + 1, w + 1 >>
Advance(i, w, inputChanTiles, weightChanTiles) ==
    IF inputChanTiles = weightChanTiles THEN << i + 1, w + 1 >>
    ELSE IF inputChanTiles = 1 THEN << i, w + 1 >>
    ELSE << i + 1, w >>

\* What one kernel invocation adds to the convolution sum of its output tile:
\* the partial sum over the channels of input tile i and weight tile w.
Contribution(i, w) == 1 + i + 2 * w

\* The kernel's effect on the output tile: overwrite, or add to what is there.
Kernel(old, contribution, accumulate) ==
    IF accumulate THEN old + contribution ELSE contribution

\* Tile coordinates of a grid with the given extents.
Coords(shape) ==
    { << a, b, c, d >> : a \in 0..(shape[1] - 1), b \in 0..(shape[2] - 1),
                         c \in 0..(shape[3] - 1), d \in 0..(shape[4] - 1) }

\* TiledTensor::startIndex(): the index function accepts a coordinate only if
\* every component lies in [0, extent) of its axis.
InRange(coord, shape) ==
    \A a \in 1..4 : 0 <= coord[a] /\ coord[a] < shape[a]

\* runNHWC(): the coordinates given to inputIdx, weightIdx and outputIdx.
InputCoordHeightAsWidth(n, h, i) == << n, 0, h, i >>
InputCoord(n, h, i) == << n, h, 0, i >>
WeightCoord(w, c) == << w, 0, 0, c >>
OutputCoordFirstBatch(n, h, w) == << 0, h, 0, w >>
OutputCoord(n, h, w) == << n, h, 0, w >>

\* runNHWC(): the buffer handed to the kernel as its third argument, the one
\* the kernel writes.
WriteTargetInput(inputTile, weightsTile, outputTile) == inputTile
WriteTarget(inputTile, weightsTile, outputTile) == outputTile

\* The input and weight tiles of two tile grids, each holding data.
OperandTiles(inputs, weights) ==
    [ x \in ({ "inputs" } \X Coords(inputs)) \cup ({ "weights" } \X Coords(weights))
        |-> 0 ]

\* generateTiledTensor on the kernels: f filter tiles and c channel tiles, and
\* as many row and column tiles as the weight tile shape needs to cover the
\* kernel.
WeightTileGrid(f, c, rows, cols, tile) ==
    << f, CeilDiv(rows, tile[1]), CeilDiv(cols, tile[2]), c >>

\* generateTiledTensor on the output: one output tile per input batch, height
\* and width tile and per filter tile.
OutputTileGrid(inputs, weights) ==
    << inputs[1], inputs[2], inputs[3], weights[1] >>

LogEntry(op, tensor, halos) == [ op |-> op, tensor |-> tensor, halos |-> halos ]

\* nnet_fwd() is not running.
FwdIdle ==
    /\ fpc = "idle"
    /\ depth = 0
    /\ activation = << >>
    /\ result_in_temp = << >>
    /\ l = 0
    /\ result_loc = "activations.d"
    /\ rlActivations = "none" /\ rlResult = "none"
    /\ rlSkipLoc = "none" /\ rlLoc = "none" /\ rlWrote = "none"
    /\ ritBefore = << >>
    /\ fwdCalls = << >>
    /\ fwdRets = << >>

\* ------------------------------------------------------------ run()

Init ==
    /\ pc = "start"
    /\ inputLayout \in Layouts
    /\ kernelLayout \in Layouts
    /\ outputLayout \in Layouts
    /\ weightRows \in 1..MaxKernel
    /\ weightCols \in 1..MaxKernel
    /\ tileShapes = << >>
    /\ tiledInputs = << >>
    /\ tiledWeights = << >>
    /\ tiledOutputs = << >>
    /\ out = << >>
    /\ N = 0 /\ H = 0 /\ W = 0 /\ iC = 0 /\ wC = 0
    /\ log = << >>
    /\ visits = << >>
    /\ calls = << >>
    /\ operands = << >>
    /\ prevRun = << >>
    /\ FwdIdle

loopVars == << N, H, W, iC, wC, visits, calls >>
opVars == << inputLayout, kernelLayout, outputLayout, weightRows, weightCols >>
tiledVars == << tileShapes, tiledInputs, tiledWeights, tiledOutputs, out, operands >>
auxVars == << prevRun, fwdVars >>

\* The three asserts of run(): any failing assert aborts the process.
AssertLayouts ==
    /\ pc = "start"
    /\ pc' = IF LayoutsOK(inputLayout, kernelLayout, outputLayout)
             THEN "asserted" ELSE "abort"
    /\ UNCHANGED << opVars, tiledVars, loopVars, log, auxVars >>

\* TilingOptimizer::computeBasicTileShapes(this): a weight tile's spatial
\* extent is some sub-extent of the kernel's.
ComputeBasicTileShapes ==
    /\ pc = "asserted"
    /\ \E r \in 1..weightRows, c \in 1..weightCols : tileShapes' = << r, c >>
    /\ log' = Append(log, LogEntry("computeBasicTileShapes", "-", << >>))
    /\ pc' = "shaped"
    /\ UNCHANGED << opVars, tiledInputs, tiledWeights, tiledOutputs, out, operands,
                    loopVars, auxVars >>

\* tiledInputs = generateTiledTensor(input, tileShapes.inputs, inputHalos).
GenerateTiledInputs ==
    /\ pc = "shaped"
    /\ \E n \in 1..MaxBatchTiles, h \in 1..MaxHeightTiles,
          w \in 1..MaxWidthTiles, c \in 1..MaxChanTiles :
            tiledInputs' = << n, h, w, c >>
    /\ log' = Append(log, LogEntry("generateTiledTensor", "input",
                                   InputHalos(weightRows, weightCols)))
    /\ operands' = OperandTiles(tiledInputs', << 0, 0, 0, 0 >>)
    /\ pc' = "tiledInputs"
    /\ UNCHANGED << opVars, tileShapes, tiledWeights, tiledOutputs, out, loopVars,
                    auxVars >>

\* tiledWeights = generateTiledTensor(kernels, tileShapes.weights, {0,0,0,0}).
GenerateTiledWeights ==
    /\ pc = "tiledInputs"
    /\ \E f \in 1..MaxFilterTiles, c \in 1..MaxChanTiles :
            tiledWeights' = WeightTileGrid(f, c, weightRows, weightCols, tileShapes)
    /\ log' = Append(log, LogEntry("generateTiledTensor", "weights", NoHalos))
    /\ operands' = OperandTiles(tiledInputs, tiledWeights')
    /\ pc' = "tiledWeights"
    /\ UNCHANGED << opVars, tileShapes, tiledInputs, tiledOutputs, out, loopVars,
                    auxVars >>

\* tiledOutputs = generateTiledTensor(output, tileShapes.outputs, {0,0,0,0});
\* the tiles start with whatever the output tensor holds.
GenerateTiledOutputs ==
    /\ pc = "tiledWeights"
    /\ tiledOutputs' = OutputTileGrid(tiledInputs, tiledWeights)
    /\ \E v \in 0..MaxContent : out' = [ t \in Coords(tiledOutputs') |-> v ]
    /\ log' = Append(log, LogEntry("generateTiledTensor", "output", NoHalos))
    /\ pc' = "tiledOutputs"
    /\ UNCHANGED << opVars, tileShapes, tiledInputs, tiledWeights, operands, loopVars,
                    auxVars >>

\* ---------------------------------------------------------- runNHWC()

\* A run() that starts the tile iteration before tiledOutputs is generated.
CallRunNHWCEarly ==
    /\ pc = "tiledWeights"
    /\ N' = 0
    /\ log' = Append(log, LogEntry("runNHWC", "-", << >>))
    /\ pc' = "forN"
    /\ UNCHANGED << opVars, tiledVars, H, W, iC, wC, visits, calls, auxVars >>

\* runNHWC(tiledInputs, tiledWeights, tiledOutputs) is entered: N = 0.
CallRunNHWC ==
    /\ pc = "tiledOutputs"
    /\ N' = 0
    /\ log' = Append(log, LogEntry("runNHWC", "-", << >>))
    /\ pc' = "forN"
    /\ UNCHANGED << opVars, tiledVars, H, W, iC, wC, visits, calls, auxVars >>

\* for (N ...; N < inputs.getShape()[0]; ...): enter the H loop, or return.
ForN ==
    /\ pc = "forN"
    /\ IF N < tiledInputs[1]
       THEN /\ H' = 0
            /\ pc' = "forH"
            /\ log' = log
       ELSE /\ H' = H
            /\ pc' = "done"
            /\ log' = Append(log, LogEntry("return", "-", << >>))
    /\ UNCHANGED << opVars, tiledVars, N, W, iC, wC, visits, calls, auxVars >>

\* for (H ...; H < inputs.getShape()[1]; ...): enter the W loop, or N++.
ForH ==
    /\ pc = "forH"
    /\ IF H < tiledInputs[2]
       THEN /\ W' = 0
            /\ N' = N
            /\ pc' = "forW"
       ELSE /\ W' = W
            /\ N' = N + 1
            /\ pc' = "forN"
    /\ UNCHANGED << opVars, tiledVars, H, iC, wC, visits, calls, log, auxVars >>

\* A W loop that forgets to reset the cursors for the next output tile.
ForWKeepCursors ==
    /\ pc = "forW"
    /\ IF W < tiledWeights[1]
       THEN /\ iC' = iC
            /\ wC' = wC
            /\ H' = H
            /\ visits' = Append(visits, << N, H, W, iC', wC' >>)
            /\ pc' = "while"
       ELSE /\ iC' = iC
            /\ wC' = wC
            /\ H' = H + 1
            /\ visits' = visits
            /\ pc' = "forH"
    /\ UNCHANGED << opVars, tiledVars, N, W, calls, log, auxVars >>

\* for (W ...; W < weights.getShape()[0]; ...): iC = wC = 0 and enter the
\* while loop, or H++.
ForW ==
    /\ pc = "forW"
    /\ IF W < tiledWeights[1]
       THEN /\ iC' = 0
            /\ wC' = 0
            /\ H' = H
            /\ visits' = Append(visits, << N, H, W, iC', wC' >>)
            /\ pc' = "while"
       ELSE /\ iC' = iC
            /\ wC' = wC
            /\ H' = H + 1
            /\ visits' = visits
            /\ pc' = "forH"
    /\ UNCHANGED << opVars, tiledVars, N, W, calls, log, auxVars >>

\* One iteration of the while loop: the three index computations, the kernel
\* call on the tiles they select, then the cursor update. An index function
\* that rejects its coordinate ends the operation.
KernelCall ==
    /\ pc = "while"
    /\ WhileCond(iC, wC, tiledInputs[4], tiledWeights[4])
    /\ LET inputTile == InputCoord(N, H, iC)
           weightsTile == WeightCoord(W, wC)
           outputTile == OutputCoord(N, H, W)
           flag == FlagArg(iC, wC)
           dst == WriteTarget(<< "inputs", inputTile >>, << "weights", weightsTile >>,
                              << "outputs", outputTile >>)
           next == Advance(iC, wC, tiledInputs[4], tiledWeights[4])
       IN  IF /\ InRange(inputTile, tiledInputs)
              /\ InRange(weightsTile, tiledWeights)
              /\ InRange(outputTile, tiledOutputs)
           THEN /\ calls' = Append(calls,
                       [ input |-> inputTile,
                         weights |-> weightsTile,
                         output |-> outputTile,
                         writes |-> dst,
                         weightsDims |-> tileShapes,
                         filterTile |-> W,
                         chanTile |-> iC,
                         flag |-> flag ])
                /\ IF dst[1] = "outputs"
                   THEN /\ out' = [ out EXCEPT ![dst[2]] =
                                      Kernel(out[dst[2]], Contribution(iC, wC), flag) ]
                        /\ operands' = operands
                   ELSE /\ operands' = [ operands EXCEPT ![dst] =
                                      Kernel(operands[dst], Contribution(iC, wC), flag) ]
                        /\ out' = out
                /\ iC' = next[1]
                /\ wC' = next[2]
                /\ pc' = pc
           ELSE /\ pc' = "indexError"
                /\ UNCHANGED << calls, out, operands, iC, wC >>
    /\ UNCHANGED << opVars, tileShapes, tiledInputs, tiledWeights,
                    tiledOutputs, N, H, W, visits, log, auxVars >>

\* The while condition fails: W++.
ExitWhile ==
    /\ pc = "while"
    /\ ~WhileCond(iC, wC, tiledInputs[4], tiledWeights[4])
    /\ W' = W + 1
    /\ pc' = "forW"
    /\ UNCHANGED << opVars, tiledVars, N, H, iC, wC, visits, calls, log, auxVars >>

NextNHWC ==
    \/ ForN
    \/ ForH
    \/ ForW
    \/ KernelCall
    \/ ExitWhile

Next ==
    \/ AssertLayouts
    \/ ComputeBasicTileShapes
    \/ GenerateTiledInputs
    \/ GenerateTiledWeights
    \/ GenerateTiledOutputs
    \/ CallRunNHWC
    \/ NextNHWC

Spec == Init /\ [][Next]_vars

\* runNHWC() as run() calls it, for any tile grids: the state at its entry.
InitNHWC ==
    /\ pc = "forN"
    /\ inputLayout = "NHWC" /\ kernelLayout = "NHWC" /\ outputLayout = "NHWC"
    /\ weightRows = MaxKernel
    /\ weightCols = MaxKernel
    /\ tileShapes = << MaxKernel, MaxKernel >>
    /\ \E n \in 1..ArgBatchTiles, h \in 1..ArgHeightTiles, w \in 1..ArgWidthTiles,
          c \in 1..ArgChanTiles, f \in 1..ArgFilterTiles, wc \in 1..ArgChanTiles :
            /\ tiledInputs = << n, h, w, c >>
            /\ tiledWeights = WeightTileGrid(f, wc, weightRows, weightCols, tileShapes)
            /\ tiledOutputs = OutputTileGrid(tiledInputs, tiledWeights)
    /\ \E v \in 0..MaxContent : out = [ t \in Coords(tiledOutputs) |-> v ]
    /\ N = 0 /\ H = 0 /\ W = 0 /\ iC = 0 /\ wC = 0
    /\ log = << LogEntry("computeBasicTileShapes", "-", << >>),
                LogEntry("generateTiledTensor", "input",
                         InputHalos(weightRows, weightCols)),
                LogEntry("generateTiledTensor", "weights", NoHalos),
                LogEntry("generateTiledTensor", "output", NoHalos),
                LogEntry("runNHWC", "-", << >>) >>
    /\ visits = << >>
    /\ calls = << >>
    /\ operands = OperandTiles(tiledInputs, tiledWeights)
    /\ prevRun = << >>
    /\ FwdIdle

SpecNHWC == InitNHWC /\ [][NextNHWC]_vars

\* runNHWC() is straight-line sequential code: it keeps taking steps.
FairSpecNHWC == SpecNHWC /\ WF_vars(NextNHWC)

\* ------------------------------------------------- properties: runNHWC()

inputChanTiles == tiledInputs[4]
weightChanTiles == tiledWeights[4]

\* The (N,H,W) triples of the loop nest, and the output tile of a triple.
Triples ==
    { << n, h, w >> : n \in 0..(tiledInputs[1] - 1), h \in 0..(tiledInputs[2] - 1),
                      w \in 0..(tiledWeights[1] - 1) }
OutputTile(t) == << t[1], t[2], 0, t[3] >>

\* The kernel invocations that target one output tile, in order.
CallsFor(tile) == SelectSeq(calls, LAMBDA c : c.output = tile)

\* Their (iC, wC) pairs, in order.
Pairs(tile) ==
    LET cs == CallsFor(tile)
    IN  [ k \in 1..Len(cs) |-> << cs[k].input[4], cs[k].weights[4] >> ]

\* The while loop of triple t has been left.
Finished(t) ==
    \/ pc = "done"
    \/ /\ \E k \in 1..Len(visits) : SubSeq(visits[k], 1, 3) = t
       /\ ~(pc = "while" /\ << N, H, W >> = t)

Max(a, b) == IF a > b THEN a ELSE b

RECURSIVE SumContributions(_)
SumContributions(cs) ==
    IF cs = << >> THEN 0
    ELSE Contribution(Head(cs).input[4], Head(cs).weights[4])
         + SumContributions(Tail(cs))

\* C1: for every output tile, the first kernel invocation that targets it is
\* made with the accumulate flag false and every later one with the flag true.
C1_FirstOverwritesLaterAccumulate ==
    \A k \in 1..Len(calls) :
        calls[k].flag = (\E j \in 1..(k - 1) : calls[j].output = calls[k].output)

\* C2: the flag passed to every kernel invocation is the truth value of
\* iC == wC for the cursors that selected its input and weight tiles.
C2_FlagIsCursorEquality ==
    \A k \in 1..Len(calls) :
        calls[k].flag = (calls[k].input[4] = calls[k].weights[4])

C2_Witness ==
    /\ \E k \in 1..Len(calls) : calls[k].flag
    /\ \E k \in 1..Len(calls) : ~calls[k].flag

\* C3: when the channel-tile counts are I = Wc, or I = 1, or Wc = 1, the loop
\* of every (N,H,W) invokes the kernel exactly once on each required pair and
\* on no other: (j,j), or (0,j), or (j,0), in ascending j; max(I,Wc) calls.
RequiredPairs(I, Wc) ==
    IF I = Wc THEN [ j \in 1..I |-> << j - 1, j - 1 >> ]
    ELSE IF I = 1 THEN [ j \in 1..Wc |-> << 0, j - 1 >> ]
    ELSE [ j \in 1..I |-> << j - 1, 0 >> ]

C3_RequiredPairsExactlyOnce ==
    (inputChanTiles = weightChanTiles \/ inputChanTiles = 1 \/ weightChanTiles = 1)
    => \A t \in Triples :
        LET p == Pairs(OutputTile(t))
            req == RequiredPairs(inputChanTiles, weightChanTiles)
        IN  /\ Len(p) <= Len(req)
            /\ p = SubSeq(req, 1, Len(p))
            /\ Finished(t) =>
                 /\ p = req
                 /\ Len(p) = Max(inputChanTiles, weightChanTiles)

C3_Witness ==
    /\ pc = "done"
    /\ inputChanTiles = 1
    /\ weightChanTiles > 1
    /\ Cardinality(Triples) > 1
    /\ \A t \in Triples : Len(Pairs(OutputTile(t))) = weightChanTiles

\* C4: when the channel depth is split over more than one input or weight
\* channel tile, an output tile whose loop has finished holds the sum of the
\* contributions of the invocations made for it, whatever it held before.
C4_OutputIsSumOfContributions ==
    (inputChanTiles > 1 \/ weightChanTiles > 1)
    => \A t \in Triples :
        Finished(t) =>
            out[OutputTile(t)] = SumContributions(CallsFor(OutputTile(t)))

\* C5: runNHWC terminates: every kernel iteration strictly increases iC or
\* wC, and the run ends with weight-count calls per (N,H,W) when the counts
\* are equal or the input count is 1, input-count calls otherwise.
C5_Terminates ==
    /\ [][calls' # calls => (iC' > iC \/ wC' > wC)]_vars
    /\ <>( /\ pc = "done"
           /\ \A t \in Triples :
                Len(CallsFor(OutputTile(t))) =
                    IF inputChanTiles = weightChanTiles \/ inputChanTiles = 1
                    THEN weightChanTiles ELSE inputChanTiles )

C5_Witness ==
    /\ pc = "done"
    /\ inputChanTiles # weightChanTiles
    /\ inputChanTiles > 1
    /\ weightChanTiles > 1
    /\ Len(calls) = Cardinality(Triples) * inputChanTiles

\* C6: the triples (N,H,W) are visited in lexicographic order, N outermost
\* and W innermost, each exactly once, with both cursors 0 at the start of
\* each.
LexVisit(k) ==
    LET nH == tiledInputs[2]
        nW == tiledWeights[1]
    IN  << (k - 1) \div (nH * nW), ((k - 1) \div nW) % nH, (k - 1) % nW, 0, 0 >>

C6_LexicographicVisits ==
    /\ Len(visits) <= Cardinality(Triples)
    /\ \A k \in 1..Len(visits) : visits[k] = LexVisit(k)
    /\ pc = "done" => Len(visits) = Cardinality(Triples)

C6_Witness ==
    /\ pc = "done"
    /\ tiledInputs[1] > 1 /\ tiledInputs[2] > 1 /\ tiledWeights[1] > 1
    /\ Len(visits) = Cardinality(Triples)

\* ----------------------------------------------------- properties: run()

\* The states in which runNHWC() is running or has returned.
InRunNHWC == pc \in { "forN", "forH", "forW", "while", "done" }

\* The phase of the operator at each position of run().
Phase ==
    CASE pc \in { "start", "asserted", "shaped", "tiledInputs", "tiledWeights" }
            -> "Uninitialized"
      [] pc = "tiledOutputs" -> "Tiled"
      [] pc \in { "forN", "forH", "forW", "while" } -> "Executing"
      [] pc = "done" -> "Done"
      [] OTHER -> "Failed"

\* C7: if the input, kernel or output layout is not NHWC, run() fails before
\* computeBasicTileShapes, any generateTiledTensor and any kernel invocation;
\* when all three are NHWC the check does not fail.
C7_LayoutPrecondition ==
    /\ (inputLayout # "NHWC" \/ kernelLayout # "NHWC" \/ outputLayout # "NHWC")
         => /\ pc \in { "start", "abort" }
            /\ log = << >>
            /\ calls = << >>
            /\ tiledInputs = << >> /\ tiledWeights = << >> /\ tiledOutputs = << >>
    /\ (inputLayout = "NHWC" /\ kernelLayout = "NHWC" /\ outputLayout = "NHWC")
         => pc # "abort"
    /\ pc = "abort" => log = << >> /\ calls = << >>

C7_Witness ==
    /\ pc = "abort"
    /\ inputLayout = "NHWC" /\ kernelLayout = "NHWC" /\ outputLayout # "NHWC"

\* C8: if a weight tile's spatial extent differs from the configured kernel
\* extent, run() reports the error before the tile iteration begins: runNHWC()
\* is never entered and no kernel invocation is made with such a tile.
C8_WeightTileMismatchFailsFast ==
    /\ (tileShapes # << >> /\ tileShapes # << weightRows, weightCols >>)
         => ~InRunNHWC
    /\ \A k \in 1..Len(calls) :
         calls[k].weightsDims = << weightRows, weightCols >>

\* C9: a run() that passes its checks computes the tile shapes once, then
\* generates the input, the weight and the output tiled tensor, then runs the
\* tile iteration once and returns; the phases Uninitialized, Tiled,
\* Executing, Done follow in that order, and no kernel invocation happens
\* before all three tiled tensors exist.
RunOrder ==
    << << "computeBasicTileShapes", "-" >>,
       << "generateTiledTensor", "input" >>,
       << "generateTiledTensor", "weights" >>,
       << "generateTiledTensor", "output" >>,
       << "runNHWC", "-" >>,
       << "return", "-" >> >>

C9_PhasesInOrder ==
    LET ops == [ k \in 1..Len(log) |-> << log[k].op, log[k].tensor >> ]
    IN  /\ Len(log) <= Len(RunOrder)
        /\ ops = SubSeq(RunOrder, 1, Len(log))
        /\ calls # << >> =>
             /\ Len(log) >= 5
             /\ tiledInputs # << >> /\ tiledWeights # << >> /\ tiledOutputs # << >>
        /\ Phase = "Uninitialized" => Len(log) < 4 /\ calls = << >>
        /\ Phase = "Tiled" => Len(log) = 4 /\ calls = << >>
        /\ Phase = "Executing" => Len(log) = 5
        /\ Phase = "Done" => Len(log) = 6 /\ calls # << >>
        /\ Phase = "Failed" => Len(log) = 0

C9_Witness ==
    /\ pc = "done"
    /\ Len(log) = 6
    /\ Len(calls) > 1

\* C10: the input tensor is tiled with halo [0, floor(weightRows/2),
\* floor(weightCols/2), 0] in (batch, height, width, channel) order; the
\* weights and the output are tiled with halo 0 on all four axes.
C10_Halos ==
    \A k \in 1..Len(log) :
        log[k].op = "generateTiledTensor" =>
            LET h == log[k].halos
            IN  /\ Len(h) = 4
                /\ log[k].tensor = "input" =>
                     /\ h[1] = 0 /\ h[4] = 0
                     /\ 2 * h[2] <= weightRows /\ weightRows < 2 * h[2] + 2
                     /\ 2 * h[3] <= weightCols /\ weightCols < 2 * h[3] + 2
                /\ log[k].tensor # "input" =>
                     h[1] = 0 /\ h[2] = 0 /\ h[3] = 0 /\ h[4] = 0

C10_Witness ==
    /\ pc = "done"
    /\ weightRows = 2 /\ weightCols = 1
    /\ log[2].halos = << 0, 1, 0, 0 >>
    /\ log[3].halos = << 0, 0, 0, 0 >>
    /\ log[4].halos = << 0, 0, 0, 0 >>

\* ------------------------------------- properties: runNHWC(), continued

\* C11: the only buffers handed to the kernel as its write target are output
\* tiles, and every input tile and every weight tile holds throughout
\* runNHWC() what it held at the start.
C11_OnlyOutputTilesWritten ==
    /\ \A k \in 1..Len(calls) :
         calls[k].writes = << "outputs", calls[k].output >>
    /\ operands = OperandTiles(tiledInputs, tiledWeights)

C11_Witness ==
    /\ pc = "done"
    /\ Len(calls) > 1
    /\ \E t \in DOMAIN out : out[t] > MaxContent

\* C12: the invocations that target one output tile are contiguous in the
\* sequence of invocations: once another tile is targeted, the earlier tile
\* is never targeted again.
C12_WritersContiguous ==
    \A i \in 1..Len(calls) : \A k \in (i + 1)..Len(calls) :
        calls[i].output = calls[k].output =>
            \A j \in i..k : calls[j].output = calls[i].output

C12_Witness ==
    /\ pc = "done"
    /\ \E i \in 1..Len(calls) : \E k \in 1..Len(calls) :
         /\ i + 1 < k
         /\ calls[i].output = calls[i + 1].output
         /\ calls[k].output # calls[i].output
         /\ k < Len(calls) /\ calls[k + 1].output = calls[k].output

\* C13: when the input and weight channel-tile counts are unequal and both
\* greater than 1, runNHWC() raises no error and only advances iC: each
\* (N,H,W) gets exactly input-count kernel calls, all with wC = 0, and weight
\* channel tiles 1 and above are never dispatched.
C13_UnequalCountsOnlyAdvanceInput ==
    (inputChanTiles # weightChanTiles /\ inputChanTiles > 1 /\ weightChanTiles > 1)
    => /\ pc \notin { "abort", "indexError" }
       /\ \A k \in 1..Len(calls) : calls[k].weights[4] = 0
       /\ \A t \in Triples :
            LET p == Pairs(OutputTile(t))
            IN  /\ \A j \in 1..Len(p) : p[j] = << j - 1, 0 >>
                /\ Len(p) <= inputChanTiles
                /\ Finished(t) => Len(p) = inputChanTiles

C13_Witness ==
    /\ pc = "done"
    /\ inputChanTiles > weightChanTiles
    /\ weightChanTiles > 1
    /\ \A t \in Triples : Len(Pairs(OutputTile(t))) = inputChanTiles
    /\ \A k \in 1..Len(calls) : calls[k].weights[4] = 0

\* C15: every kernel invocation uses width-tile coordinate 0 for its input,
\* weight and output tile and row and column coordinate 0 for its weight
\* tile; at the end every output tile with width coordinate 0 has been
\* targeted, and the input and output tiles with width coordinate 1 or more
\* have never been dispatched or written.
C15_WidthCoordinateZero ==
    /\ \A k \in 1..Len(calls) :
         /\ calls[k].input[3] = 0
         /\ calls[k].output[3] = 0
         /\ calls[k].weights[2] = 0 /\ calls[k].weights[3] = 0
         /\ calls[k].writes[2][3] = 0
    /\ pc = "done" =>
         \A t \in Coords(tiledOutputs) :
            (t[3] = 0) <=> (\E k \in 1..Len(calls) : calls[k].output = t)
    /\ pc = "done" =>
         \A t \in Coords(tiledInputs) :
            t[3] >= 1 => ~(\E k \in 1..Len(calls) : calls[k].input = t)

C15_Witness ==
    /\ pc = "done"
    /\ tiledInputs[3] > 1 /\ tiledOutputs[3] > 1
    /\ Len(calls) >= Cardinality(Triples)

\* --------------------------------- runNHWC() on grids that need not fit

\* runNHWC() entered with three tiled tensors whose grids are unrelated.
InitAnyGrids ==
    /\ pc = "forN"
    /\ inputLayout = "NHWC" /\ kernelLayout = "NHWC" /\ outputLayout = "NHWC"
    /\ weightRows = MaxKernel
    /\ weightCols = MaxKernel
    /\ tileShapes = << MaxKernel, MaxKernel >>
    /\ \E n \in 1..AnyTiles, h \in 1..AnyTiles, c \in 1..AnyTiles,
          f \in 1..AnyTiles, wc \in 1..AnyTiles,
          on \in 1..AnyTiles, oh \in 1..AnyTiles, oc \in 1..AnyTiles :
            /\ tiledInputs = << n, h, 1, c >>
            /\ tiledWeights = WeightTileGrid(f, wc, weightRows, weightCols, tileShapes)
            /\ tiledOutputs = << on, oh, 1, oc >>
    /\ out = [ t \in Coords(tiledOutputs) |-> 0 ]
    /\ N = 0 /\ H = 0 /\ W = 0 /\ iC = 0 /\ wC = 0
    /\ log = << LogEntry("computeBasicTileShapes", "-", << >>),
                LogEntry("generateTiledTensor", "input",
                         InputHalos(weightRows, weightCols)),
                LogEntry("generateTiledTensor", "weights", NoHalos),
                LogEntry("generateTiledTensor", "output", NoHalos),
                LogEntry("runNHWC", "-", << >>) >>
    /\ visits = << >>
    /\ calls = << >>
    /\ operands = OperandTiles(tiledInputs, tiledWeights)
    /\ prevRun = << >>
    /\ FwdIdle

SpecAnyGrids == InitAnyGrids /\ [][NextNHWC]_vars

\* runNHWC() is called a second time on the same tiled tensors once the
\* first call has returned or failed; its locals start with whatever the
\* first call left behind.
Rerun ==
    /\ pc \in { "done", "indexError" }
    /\ prevRun = << >>
    /\ FwdIdle
    /\ prevRun' = [ calls |-> calls, pc |-> pc ]
    /\ calls' = << >>
    /\ visits' = << >>
    /\ N' = 0
    /\ pc' = "forN"
    /\ UNCHANGED << opVars, tiledVars, H, W, iC, wC, log, fwdVars >>

NextTwice ==
    \/ ForN
    \/ ForH
    \/ ForW
    \/ KernelCall
    \/ ExitWhile
    \/ Rerun

SpecTwice == InitAnyGrids /\ [][NextTwice]_vars

\* The output grid has a tile for every (N,H,W) the loop nest visits.
OutputGridFits ==
    /\ tiledOutputs[1] >= tiledInputs[1]
    /\ tiledOutputs[2] >= tiledInputs[2]
    /\ tiledOutputs[4] >= tiledWeights[1]

\* C14: when the output grid's batch, height and channel extents are at least
\* the input grid's batch and height extents and the weight grid's filter
\* extent, every coordinate given to the three index functions lies in
\* [0, extent) and no indexing error occurs; when the output grid is smaller
\* the run ends in an indexing error instead of returning, and a kernel call
\* is never made on an out-of-range (clamped) coordinate.
C14_IndexRanges ==
    /\ \A k \in 1..Len(calls) : \A a \in 1..4 :
         /\ 0 <= calls[k].input[a] /\ calls[k].input[a] < tiledInputs[a]
         /\ 0 <= calls[k].weights[a] /\ calls[k].weights[a] < tiledWeights[a]
         /\ 0 <= calls[k].output[a] /\ calls[k].output[a] < tiledOutputs[a]
    /\ OutputGridFits => pc # "indexError"
    /\ ~OutputGridFits => pc # "done"

C14_Witness ==
    /\ pc = "indexError"
    /\ ~OutputGridFits
    /\ Len(calls) > 0

\* C19: dispatch is deterministic: a second runNHWC() on the same tile grids
\* makes the same kernel invocations in the same order (same tiles, W, iC and
\* flag) and ends the same way, at the same point, as the first; and no
\* invocation is repeated within a run.
SameCall(a, b) ==
    /\ a.input = b.input /\ a.weights = b.weights /\ a.output = b.output
    /\ a.filterTile = b.filterTile /\ a.chanTile = b.chanTile /\ a.flag = b.flag

C19_DeterministicDispatch ==
    /\ prevRun # << >> =>
         /\ Len(calls) <= Len(prevRun.calls)
         /\ \A k \in 1..Len(calls) : SameCall(calls[k], prevRun.calls[k])
         /\ pc \in { "done", "indexError" } =>
              /\ pc = prevRun.pc
              /\ Len(calls) = Len(prevRun.calls)
    /\ \A i \in 1..Len(calls) : \A j \in (i + 1)..Len(calls) :
         << calls[i].input, calls[i].weights, calls[i].output >>
            # << calls[j].input, calls[j].weights, calls[j].output >>

C19_Witness ==
    /\ prevRun # << >>
    /\ pc = "indexError"
    /\ prevRun.pc = "indexError"
    /\ Len(calls) > 1

\* ------------------------------------------------ nnet_fwd(), run_layer()

Buffers == { "activations.d", "result.d" }
Activations == { "NO_ACTIVATION", "RELU" }

\* nnet_fwd(): the (activations, result) arguments of the run_layer call,
\* chosen by where the last output is.
FwdArgsNoSwap(loc) == << "activations.d", "result.d" >>
FwdArgs(loc) ==
    IF loc = "result.d" THEN << "result.d", "activations.d" >>
    ELSE << "activations.d", "result.d" >>

\* nnet_fwd(): layers[network.depth - 1].result_in_temp = result_loc == result.d.
ResultInTempOfActivations(loc) == IF loc = "activations.d" THEN 1 ELSE 0
ResultInTemp(loc) == IF loc = "result.d" THEN 1 ELSE 0

\* run_layer(): the activation part. Given where the layer's output is (loc),
\* the two arguments and the layer's activation: << result_loc returned,
\* buffer activation_sublayer wrote or "none" >>.
ActivationPart(loc, acts, res, act) ==
    IF act # "NO_ACTIVATION"
    THEN IF loc = acts THEN << loc, res >>
         ELSE << acts, acts >>
    ELSE << loc, "none" >>

\* The SmvConvolutionOp of the module is not running.
ConvIdle ==
    /\ pc = "start"
    /\ inputLayout = "NHWC" /\ kernelLayout = "NHWC" /\ outputLayout = "NHWC"
    /\ weightRows = 1 /\ weightCols = 1
    /\ tileShapes = << >>
    /\ tiledInputs = << >> /\ tiledWeights = << >> /\ tiledOutputs = << >>
    /\ out = << >>
    /\ N = 0 /\ H = 0 /\ W = 0 /\ iC = 0 /\ wC = 0
    /\ log = << >> /\ visits = << >> /\ calls = << >>
    /\ operands = << >>
    /\ prevRun = << >>

\* nnet_fwd() entered: result_loc = activations.d, and the for loop starts
\* at l = 1.
InitFwd ==
    /\ ConvIdle
    /\ fpc = "for"
    /\ depth \in 1..MaxDepth
    /\ activation \in [ 0..(depth - 1) -> Activations ]
    /\ \E v \in { 0, 1 } : result_in_temp = [ i \in 0..(depth - 1) |-> v ]
    /\ ritBefore = result_in_temp
    /\ l = 1
    /\ result_loc = "activations.d"
    /\ rlActivations = "none" /\ rlResult = "none"
    /\ rlSkipLoc = "none" /\ rlLoc = "none" /\ rlWrote = "none"
    /\ fwdCalls = << >>
    /\ fwdRets = << >>

\* for (l = 1; l < network.depth; l++): call run_layer on layer l, or leave
\* the loop, set result_in_temp of the last layer and return.
FwdFor ==
    /\ fpc = "for"
    /\ IF l < depth
       THEN /\ rlActivations' = FwdArgs(result_loc)[1]
            /\ rlResult' = FwdArgs(result_loc)[2]
            /\ fwdCalls' = Append(fwdCalls,
                   [ layer |-> l, activations |-> rlActivations',
                     result |-> rlResult' ])
            /\ fpc' = "run_layer"
            /\ UNCHANGED result_in_temp
       ELSE /\ result_in_temp' =
                   [ result_in_temp EXCEPT ![depth - 1] = ResultInTemp(result_loc) ]
            /\ fpc' = "returned"
            /\ UNCHANGED << rlActivations, rlResult, fwdCalls >>
    /\ UNCHANGED << convVars, depth, activation, l, result_loc, rlSkipLoc, rlLoc,
                    rlWrote, ritBefore, fwdRets >>

\* run_layer(): result_loc = run_layer_skip_activation_func(...), which
\* leaves the layer's output in one of the two buffers it was given.
RunLayerSkipActivationFunc ==
    /\ fpc = "run_layer"
    /\ \E loc \in { rlActivations, rlResult } :
         /\ rlSkipLoc' = loc
         /\ rlLoc' = loc
    /\ rlWrote' = "none"
    /\ fpc' = "skipped"
    /\ UNCHANGED << convVars, depth, activation, result_in_temp, l, result_loc,
                    rlActivations, rlResult, ritBefore, fwdCalls, fwdRets >>

\* run_layer(): the activation function, if the layer has one.
RunLayerActivation ==
    /\ fpc = "skipped"
    /\ LET r == ActivationPart(rlLoc, rlActivations, rlResult, activation[l])
       IN  /\ rlLoc' = r[1]
           /\ rlWrote' = r[2]
    /\ fpc' = "return"
    /\ UNCHANGED << convVars, depth, activation, result_in_temp, l, result_loc,
                    rlActivations, rlResult, rlSkipLoc, ritBefore, fwdCalls, fwdRets >>

\* run_layer() returns result_loc to nnet_fwd(), which stores it; l++.
RunLayerReturn ==
    /\ fpc = "return"
    /\ result_loc' = rlLoc
    /\ fwdRets' = Append(fwdRets,
           [ layer |-> l, activation |-> activation[l], skipLoc |-> rlSkipLoc,
             wrote |-> rlWrote, returned |-> rlLoc ])
    /\ l' = l + 1
    /\ fpc' = "for"
    /\ UNCHANGED << convVars, depth, activation, result_in_temp, rlActivations,
                    rlResult, rlSkipLoc, rlLoc, rlWrote, ritBefore, fwdCalls >>

NextFwd ==
    \/ FwdFor
    \/ RunLayerSkipActivationFunc
    \/ RunLayerActivation
    \/ RunLayerReturn

SpecFwd == InitFwd /\ [][NextFwd]_vars

\* ------------------------------------------- properties: nnet_fwd()

\* C16: run_layer returns the buffer that holds the layer's final output: the
\* buffer the activation sublayer wrote when the layer has an activation,
\* wherever run_layer_skip_activation_func left its output, and the buffer
\* run_layer_skip_activation_func returned when it has none.
C16_ReturnsFinalOutputBuffer ==
    \A k \in 1..Len(fwdRets) :
        IF fwdRets[k].activation # "NO_ACTIVATION"
        THEN fwdRets[k].returned = fwdRets[k].wrote
        ELSE fwdRets[k].returned = fwdRets[k].skipLoc

\* C17: nnet_fwd runs layers 1..depth-1 in ascending order, each once; the
\* activations argument of each call is the buffer the previous call returned
\* (activations.d for the first), the result argument is the other buffer.
C17_PingPongArguments ==
    /\ Len(fwdCalls) <= depth - 1
    /\ Len(fwdRets) <= Len(fwdCalls)
    /\ \A k \in 1..Len(fwdCalls) :
         /\ fwdCalls[k].layer = k
         /\ fwdCalls[k].activations =
              IF k = 1 THEN "activations.d" ELSE fwdRets[k - 1].returned
         /\ fwdCalls[k].result \in Buffers \ { fwdCalls[k].activations }
    /\ fpc = "returned" => Len(fwdCalls) = depth - 1 /\ Len(fwdRets) = depth - 1

C17_Witness ==
    /\ fpc = "returned"
    /\ Len(fwdCalls) >= 2
    /\ \E k \in 1..Len(fwdCalls) : fwdCalls[k].activations = "result.d"
    /\ \E k \in 2..Len(fwdCalls) : fwdCalls[k].activations = "activations.d"

\* C18: when nnet_fwd returns, result_in_temp of the last layer is 1 exactly
\* when the last run_layer call returned result.d and 0 when it returned
\* activations.d (0 for depth 1); no other layer's result_in_temp changes.
LastReturned ==
    IF fwdRets = << >> THEN "activations.d" ELSE fwdRets[Len(fwdRets)].returned

C18_ResultInTemp ==
    /\ fpc # "returned" => result_in_temp = ritBefore
    /\ fpc = "returned" =>
         /\ result_in_temp[depth - 1] = 1 <=> LastReturned = "result.d"
         /\ result_in_temp[depth - 1] = 0 <=> LastReturned = "activations.d"
         /\ depth = 1 => result_in_temp[depth - 1] = 0
         /\ \A i \in 0..(depth - 2) : result_in_temp[i] = ritBefore[i]

C18_Witness ==
    /\ fpc = "returned"
    /\ depth > 1
    /\ LastReturned = "result.d"
    /\ result_in_temp[depth - 1] = 1
    /\ ritBefore[depth - 1] = 0

====
